---- MODULE Spec2Model ----
(***************************************************************************)
(* A model of scrape.py, the NLA staff-papers scraper.                     *)
(*                                                                         *)
(* Text is a sequence of one-character strings, so that splitting,         *)
(* trimming, date parsing and path handling are computed character by      *)
(* character, the way the Python library functions compute them.           *)
(* A list returned by a BeautifulSoup lookup (select, find_all) is a       *)
(* sequence; the result of find (an element or None) is the sequence of    *)
(* the matching elements, of which find takes the first.                   *)
(***************************************************************************)
EXTENDS Integers, Sequences, FiniteSets, TLC

VARIABLES
    pc,                 \* where main() is
    url_page,           \* the page the URL serves (the environment)
    argv,               \* the command line: --outpath (if given) and --silent
    args,               \* the argparse namespace: outpath, silent
    cwd,                \* the process's working directory
    now,                \* the wall clock read by add_filename_default
    fs,                 \* the filesystem: path -> node
    fs0,                \* the filesystem as it was when the run started
    page,               \* scrape's local: the parsed page
    search_results,     \* scrape's local: the li elements
    cursor,             \* scrape's loop position in search_results
    processed_results,  \* scrape's local: the records built so far
    papers,             \* main's local: <<the list scrape returned>>, <<>> before
    f,                  \* the open file: the chunks json.dump still has to write
    e,                  \* the IOError caught by main
    exc,                \* the exception that left main unhandled
    stdout,             \* what was printed
    stderr,             \* what the interpreter wrote on exit
    exit_code,          \* the process's exit status
    fn_pc,              \* the function applied on its own: which, and whether it ran
    fn_in,              \* its argument
    fn_out              \* its outcome

vars == <<pc, url_page, argv, args, cwd, now, fs, fs0, page, search_results, cursor,
          processed_results, papers, f, e, exc, stdout, stderr, exit_code,
          fn_pc, fn_in, fn_out>>

main_vars == <<pc, url_page, argv, args, cwd, now, fs, fs0, page, search_results, cursor,
               processed_results, papers, f, e, exc, stdout, stderr, exit_code>>

fn_vars == <<fn_pc, fn_in, fn_out>>

----------------------------------------------------------------------------
(* Bounds of the model. *)

\* the longest text the comma-list extractors are run on
MaxLen == 4

\* the most li elements of a page
MaxItems == 2

----------------------------------------------------------------------------
(* Outcomes: a Python call either returns a value or raises. *)

NoErr == [type |-> "", line |-> 0, arg |-> <<>>]

\* an exception: its class, the line of scrape.py the traceback ends at in
\* this file, and the text its message quotes
Exc(type, line, arg) == [type |-> type, line |-> line, arg |-> arg]

Ok(v) == [ok |-> TRUE, val |-> v, err |-> NoErr]

Raise(x) == [ok |-> FALSE, val |-> <<>>, err |-> x]

----------------------------------------------------------------------------
(* str methods. *)

\* the characters str.strip() and the regex class \s take for whitespace
Whitespace == {" ", "\n"}

RECURSIVE lstrip(_)
lstrip(s) == IF s # <<>> /\ Head(s) \in Whitespace THEN lstrip(Tail(s)) ELSE s

RECURSIVE rstrip(_)
rstrip(s) ==
    IF s # <<>> /\ s[Len(s)] \in Whitespace
    THEN rstrip(SubSeq(s, 1, Len(s) - 1))
    ELSE s

\* str.strip()
strip(s) == rstrip(lstrip(s))

\* str.split(sep) for a one-character separator
RECURSIVE split(_, _)
split(s, sep) ==
    IF \A i \in 1..Len(s) : s[i] # sep
    THEN <<s>>
    ELSE LET i == CHOOSE k \in 1..Len(s) :
                      s[k] = sep /\ \A j \in 1..(k - 1) : s[j] # sep
         IN <<SubSeq(s, 1, i - 1)>> \o split(SubSeq(s, i + 1, Len(s)), sep)

\* str.endswith(suffix)
endswith(s, suffix) ==
    /\ Len(s) >= Len(suffix)
    /\ SubSeq(s, Len(s) - Len(suffix) + 1, Len(s)) = suffix

\* [g(x) for x in xs]
RECURSIVE strip_each(_)
strip_each(xs) ==
    IF xs = <<>> THEN <<>> ELSE <<strip(Head(xs))>> \o strip_each(Tail(xs))

----------------------------------------------------------------------------
(* The field extractors. *)

\* get_author_list(item)
get_author_list(item) ==
    IF item.author = <<>>
    THEN Raise(Exc("IndexError", 64, <<>>))
    ELSE LET author_div == item.author[1]
         IN IF author_div.span = <<>>
            THEN Raise(Exc("AttributeError", 65, <<>>))
            ELSE Ok(strip_each(split(author_div.span[1], ",")))

\* get_topics_list(item) with the blank entries dropped after trimming
get_topics_list_dropblanks(item) ==
    IF item.topics = <<>>
    THEN Raise(Exc("IndexError", 79, <<>>))
    ELSE LET topic_div == item.topics[1]
         IN IF topic_div.span = <<>>
            THEN Raise(Exc("AttributeError", 80, <<>>))
            ELSE Ok(SelectSeq(strip_each(split(topic_div.span[1], ",")),
                              LAMBDA t : t # <<>>))

\* get_topics_list(item)
get_topics_list(item) ==
    IF item.topics = <<>>
    THEN Raise(Exc("IndexError", 79, <<>>))
    ELSE LET topic_div == item.topics[1]
         IN IF topic_div.span = <<>>
            THEN Raise(Exc("AttributeError", 80, <<>>))
            ELSE Ok(strip_each(split(topic_div.span[1], ",")))

\* get_abstract(item)
get_abstract(item) ==
    IF item.abstract = <<>>
    THEN Raise(Exc("IndexError", 94, <<>>))
    ELSE Ok(strip(item.abstract[1].text))

----------------------------------------------------------------------------
(* datetime.strptime(raw, '%d %B %Y').date().isoformat() *)

Digits == <<"0", "1", "2", "3", "4", "5", "6", "7", "8", "9">>

IsDigit(c) == \E i \in 1..10 : Digits[i] = c

\* int() of one digit
DigitVal(c) == (CHOOSE i \in 1..10 : Digits[i] = c) - 1

\* int() of a run of digits
RECURSIVE int(_)
int(s) == IF s = <<>> THEN 0 ELSE 10 * int(SubSeq(s, 1, Len(s) - 1)) + DigitVal(s[Len(s)])

UpperCase == <<"A", "B", "C", "D", "E", "F", "G", "H", "I", "J", "K", "L", "M",
               "N", "O", "P", "Q", "R", "S", "T", "U", "V", "W", "X", "Y", "Z">>

LowerCase == <<"a", "b", "c", "d", "e", "f", "g", "h", "i", "j", "k", "l", "m",
               "n", "o", "p", "q", "r", "s", "t", "u", "v", "w", "x", "y", "z">>

\* str.lower(), as re.IGNORECASE compares
lower(s) ==
    [i \in 1..Len(s) |->
        IF \E k \in 1..26 : UpperCase[k] = s[i]
        THEN LowerCase[CHOOSE k \in 1..26 : UpperCase[k] = s[i]]
        ELSE s[i]]

\* _strptime.LocaleTime.f_month in the C locale: calendar.month_name, lowered
f_month ==
    << <<"j", "a", "n", "u", "a", "r", "y">>,
       <<"f", "e", "b", "r", "u", "a", "r", "y">>,
       <<"m", "a", "r", "c", "h">>,
       <<"a", "p", "r", "i", "l">>,
       <<"m", "a", "y">>,
       <<"j", "u", "n", "e">>,
       <<"j", "u", "l", "y">>,
       <<"a", "u", "g", "u", "s", "t">>,
       <<"s", "e", "p", "t", "e", "m", "b", "e", "r">>,
       <<"o", "c", "t", "o", "b", "e", "r">>,
       <<"n", "o", "v", "e", "m", "b", "e", "r">>,
       <<"d", "e", "c", "e", "m", "b", "e", "r">> >>

\* the order TimeRE tries the month names in: longest first
MonthRegexOrder == <<9, 2, 11, 12, 1, 10, 8, 3, 4, 6, 7, 5>>

\* the directive %d: (?P<d>3[0-1]|[1-2]\d|0[1-9]|[1-9]| [1-9]); the lengths of
\* the alternatives that match at the start of s, in the regex's order
DayAlternatives(s) ==
    LET c1 == IF Len(s) >= 1 THEN s[1] ELSE ""
        c2 == IF Len(s) >= 2 THEN s[2] ELSE ""
        alt == << c1 = "3" /\ c2 \in {"0", "1"},
                  c1 \in {"1", "2"} /\ IsDigit(c2),
                  c1 = "0" /\ IsDigit(c2) /\ c2 # "0",
                  IsDigit(c1) /\ c1 # "0",
                  c1 = " " /\ IsDigit(c2) /\ c2 # "0" >>
        len == <<2, 2, 2, 1, 2>>
    IN SelectSeq([i \in 1..5 |-> IF alt[i] THEN len[i] ELSE 0], LAMBDA n : n > 0)

\* \s+ : the text after a run of one or more whitespace characters, in a
\* sequence of its own; the empty sequence if s starts with none
SkipSpaces(s) ==
    IF s # <<>> /\ Head(s) \in Whitespace THEN <<lstrip(s)>> ELSE <<>>

\* the directive %B: the months, in the regex's order, whose name s starts
\* with, in any letter case
MonthAlternatives(s) ==
    SelectSeq(MonthRegexOrder,
              LAMBDA m : /\ Len(s) >= Len(f_month[m])
                         /\ lower(SubSeq(s, 1, Len(f_month[m]))) = f_month[m])

\* the directive %Y: (?P<Y>\d\d\d\d)
YearMatches(s) == Len(s) >= 4 /\ \A i \in 1..4 : IsDigit(s[i])

\* format_regex.match(data_string) after the day alternative of length n: the
\* groups and the text left after the match, or the empty sequence
MatchAfterDay(s, n) ==
    LET s1 == SkipSpaces(SubSeq(s, n + 1, Len(s)))
    IN IF s1 = <<>> THEN <<>>
       ELSE LET months == MonthAlternatives(s1[1])
            IN IF months = <<>> THEN <<>>
               ELSE LET m == months[1]
                        s2 == SkipSpaces(SubSeq(s1[1], Len(f_month[m]) + 1, Len(s1[1])))
                    IN IF s2 = <<>> \/ ~YearMatches(s2[1]) THEN <<>>
                       ELSE <<[d |-> int(strip(SubSeq(s, 1, n))),
                               B |-> m,
                               Y |-> int(SubSeq(s2[1], 1, 4)),
                               rest |-> SubSeq(s2[1], 5, Len(s2[1]))]>>

\* the first day alternative, in the regex's order, the whole pattern matches with
RECURSIVE FirstMatch(_, _)
FirstMatch(s, alts) ==
    IF alts = <<>> THEN <<>>
    ELSE IF MatchAfterDay(s, Head(alts)) # <<>> THEN MatchAfterDay(s, Head(alts))
    ELSE FirstMatch(s, Tail(alts))

\* datetime._is_leap without the century rule
is_leap_julian(year) == year % 4 = 0

\* datetime._is_leap
is_leap(year) == year % 4 = 0 /\ (year % 100 # 0 \/ year % 400 = 0)

\* datetime._days_in_month
days_in_month(year, month) ==
    IF month = 2 /\ is_leap(year) THEN 29
    ELSE <<31, 28, 31, 30, 31, 30, 31, 31, 30, 31, 30, 31>>[month]

\* '%02d' and '%04d' of a number
RECURSIVE zero_padded(_, _)
zero_padded(n, width) ==
    IF width = 0 THEN <<>>
    ELSE Append(zero_padded(n \div 10, width - 1), Digits[(n % 10) + 1])

\* date.isoformat(): "%04d-%02d-%02d"
isoformat(year, month, day) ==
    zero_padded(year, 4) \o <<"-">> \o zero_padded(month, 2) \o <<"-">> \o zero_padded(day, 2)

\* datetime.strptime(raw, '%d %B %Y').date().isoformat(), raised from line 109
strptime_iso(raw) ==
    LET found == FirstMatch(raw, DayAlternatives(raw))
    IN IF found = <<>>
       THEN Raise(Exc("ValueError", 109, raw))           \* does not match format
       ELSE IF found[1].rest # <<>>
       THEN Raise(Exc("ValueError", 109, found[1].rest)) \* unconverted data remains
       ELSE IF found[1].Y < 1
       THEN Raise(Exc("ValueError", 109, <<"y">>))       \* year 0 is out of range
       ELSE IF found[1].d > days_in_month(found[1].Y, found[1].B)
       THEN Raise(Exc("ValueError", 109, <<"d">>))       \* day is out of range for month
       ELSE Ok(isoformat(found[1].Y, found[1].B, found[1].d))

\* get_date(item)
get_date(item) ==
    IF item.pubdate = <<>>
    THEN Raise(Exc("IndexError", 107, <<>>))
    ELSE LET date_div == item.pubdate[1]
         IN IF date_div.span = <<>>
            THEN Raise(Exc("AttributeError", 108, <<>>))
            ELSE strptime_iso(strip(date_div.span[1]))

----------------------------------------------------------------------------
(* os.path (posixpath) and the output path. *)

\* str.startswith(prefix)
startswith(s, prefix) == Len(s) >= Len(prefix) /\ SubSeq(s, 1, Len(prefix)) = prefix

\* os.path.join(a, b)
join(a, b) ==
    IF startswith(b, <<"/">>) THEN b
    ELSE IF a = <<>> \/ endswith(a, <<"/">>) THEN a \o b
    ELSE a \o <<"/">> \o b

\* '/'.join(comps)
RECURSIVE slash_join(_)
slash_join(comps) ==
    IF comps = <<>> THEN <<>>
    ELSE IF Len(comps) = 1 THEN comps[1]
    ELSE comps[1] \o <<"/">> \o slash_join(Tail(comps))

\* the loop of os.path.normpath over the components
RECURSIVE norm_comps(_, _, _)
norm_comps(comps, new_comps, initial_slashes) ==
    IF comps = <<>> THEN new_comps
    ELSE LET comp == Head(comps)
             dotdot == <<".", ".">>
         IN IF comp \in {<<>>, <<".">>}
            THEN norm_comps(Tail(comps), new_comps, initial_slashes)
            ELSE IF \/ comp # dotdot
                    \/ (initial_slashes = 0 /\ new_comps = <<>>)
                    \/ (new_comps # <<>> /\ new_comps[Len(new_comps)] = dotdot)
            THEN norm_comps(Tail(comps), Append(new_comps, comp), initial_slashes)
            ELSE IF new_comps # <<>>
            THEN norm_comps(Tail(comps), SubSeq(new_comps, 1, Len(new_comps) - 1),
                            initial_slashes)
            ELSE norm_comps(Tail(comps), new_comps, initial_slashes)

\* os.path.normpath(path)
normpath(path) ==
    IF path = <<>> THEN <<".">>
    ELSE LET initial_slashes ==
                 IF ~startswith(path, <<"/">>) THEN 0
                 ELSE IF startswith(path, <<"/", "/">>) /\ ~startswith(path, <<"/", "/", "/">>)
                 THEN 2
                 ELSE 1
             joined == slash_join(norm_comps(split(path, "/"), <<>>, initial_slashes))
             out == [i \in 1..initial_slashes |-> "/"] \o joined
         IN IF out = <<>> THEN <<".">> ELSE out

\* os.path.abspath(path) in the working directory wd
abspath(path, wd) ==
    IF startswith(path, <<"/">>) THEN normpath(path) ELSE normpath(join(wd, path))

\* str.rstrip('/')
RECURSIVE rstrip_slash(_)
rstrip_slash(s) ==
    IF s # <<>> /\ s[Len(s)] = "/" THEN rstrip_slash(SubSeq(s, 1, Len(s) - 1)) ELSE s

\* os.path.dirname(path)
dirname(path) ==
    LET slashes == {i \in 1..Len(path) : path[i] = "/"}
    IN IF slashes = {} THEN <<>>
       ELSE LET i == CHOOSE k \in slashes : \A j \in slashes : j <= k
                head == SubSeq(path, 1, i)
            IN IF \A k \in 1..Len(head) : head[k] = "/" THEN head ELSE rstrip_slash(head)

\* parse_args(): the namespace, with the default of --outpath and its abspath
parse_args(av, wd) ==
    [outpath |-> abspath(IF av.outpath = <<>> THEN <<".", "/">> ELSE av.outpath[1], wd),
     silent |-> av.silent]

DotJson == <<".", "j", "s", "o", "n">>

\* datetime.now().strftime('%Y-%m-%d-%H-%M-%S')
strftime(t) ==
    zero_padded(t.Y, 4) \o <<"-">> \o zero_padded(t.m, 2) \o <<"-">> \o zero_padded(t.d, 2)
    \o <<"-">> \o zero_padded(t.H, 2) \o <<"-">> \o zero_padded(t.M, 2)
    \o <<"-">> \o zero_padded(t.S, 2)

\* add_filename_default(outpath), the clock reading t
add_filename_default(outpath, t) ==
    LET default_file_name == strftime(t) \o DotJson
    IN IF ~endswith(outpath, DotJson)
       THEN join(outpath, default_file_name)
       ELSE outpath

\* main(), lines 196-197: the path the file is opened at
main_outpath(outpath, t) ==
    IF ~endswith(outpath, DotJson) THEN add_filename_default(outpath, t) ELSE outpath

----------------------------------------------------------------------------
(* The filesystem: a function from the paths that exist to their nodes.    *)
(* A node is a directory or a regular file, writable by the process or     *)
(* not; a file has content, the sequence of the chunks written to it.      *)

Dir(writable) == [kind |-> "dir", writable |-> writable, content |-> <<>>]

File(writable, content) == [kind |-> "file", writable |-> writable, content |-> content]

\* open(path, 'w+'): the filesystem after it, or the OSError it raises
open_w(files, path) ==
    IF path \in DOMAIN files
    THEN IF files[path].kind = "dir"
         THEN Raise(Exc("IsADirectoryError", 199, path))
         ELSE IF ~files[path].writable
         THEN Raise(Exc("PermissionError", 199, path))
         ELSE Ok([files EXCEPT ![path].content = <<>>])
    ELSE LET parent == dirname(path)
         IN IF parent \notin DOMAIN files
            THEN Raise(Exc("FileNotFoundError", 199, path))
            ELSE IF files[parent].kind # "dir"
            THEN Raise(Exc("NotADirectoryError", 199, path))
            ELSE IF ~files[parent].writable
            THEN Raise(Exc("PermissionError", 199, path))
            ELSE Ok((path :> File(TRUE, <<>>)) @@ files)

\* the classes `except IOError` catches: OSError and its subclasses
IsIOError(x) ==
    x.type \in {"OSError", "IsADirectoryError", "PermissionError", "FileNotFoundError",
                "NotADirectoryError", "ConnectionError"}

----------------------------------------------------------------------------
(* Record assembly and the extraction pipeline. *)

\* the site origin convert_raw_paper_to_dict puts before the href
Origin == <<"https://www.nla.gov.au">>

\* convert_raw_paper_to_dict(item): the dict display evaluates its values in
\* order, and the first lookup that fails raises
convert_raw_paper_to_dict(item) ==
    LET authors == get_author_list(item)
        date == get_date(item)
        abstract == get_abstract(item)
        topics == get_topics_list(item)
    IN IF item.h3 = <<>>
       THEN Raise(Exc("AttributeError", 123, <<>>))      \* None has no attribute 'text'
       ELSE IF item.h3[1].a = <<>>
       THEN Raise(Exc("TypeError", 124, <<>>))           \* None is not subscriptable
       ELSE IF item.h3[1].a[1].href = <<>>
       THEN Raise(Exc("KeyError", 124, <<"h", "r", "e", "f">>))
       ELSE IF ~authors.ok THEN Raise(authors.err)
       ELSE IF ~date.ok THEN Raise(date.err)
       ELSE IF ~abstract.ok THEN Raise(abstract.err)
       ELSE IF ~topics.ok THEN Raise(topics.err)
       ELSE Ok([title |-> item.h3[1].text,
                url |-> Origin \o item.h3[1].a[1].href[1],
                authors |-> authors.val,
                date |-> date.val,
                abstract |-> abstract.val,
                topics |-> topics.val])

\* extract_raw_search_results(soup) taking every li of the page
extract_all_li(soup) ==
    IF soup.results = <<>>
    THEN Raise(Exc("AttributeError", 51, <<>>))
    ELSE Ok(soup.results[1].li \o soup.elsewhere)

\* extract_raw_search_results(soup) taking a missing container for an empty one
extract_or_empty(soup) ==
    IF soup.results = <<>> THEN Ok(<<>>) ELSE Ok(soup.results[1].li)

\* extract_raw_search_results(soup) refusing a container without li
extract_nonempty(soup) ==
    IF soup.results = <<>> \/ soup.results[1].li = <<>>
    THEN Raise(Exc("AttributeError", 51, <<>>))
    ELSE Ok(soup.results[1].li)

\* extract_raw_search_results(soup): the li elements of the first element of
\* class search-results; find returns None when there is none
extract_raw_search_results(soup) ==
    IF soup.results = <<>>
    THEN Raise(Exc("AttributeError", 51, <<>>))       \* None has no attribute 'find_all'
    ELSE Ok(soup.results[1].li)

\* json.JSONEncoder(indent=2).iterencode(papers), the chunks json.dump writes:
\* a bracket, the records with commas between them, a bracket
RECURSIVE iterencode_items(_)
iterencode_items(records) ==
    IF records = <<>> THEN <<>>
    ELSE IF Len(records) = 1 THEN <<[json |-> "object", of |-> <<records[1]>>]>>
    ELSE <<[json |-> "object", of |-> <<records[1]>>], [json |-> ",", of |-> <<>>]>>
         \o iterencode_items(Tail(records))

iterencode(records) ==
    IF records = <<>> THEN <<[json |-> "[]", of |-> <<>>]>>
    ELSE <<[json |-> "[", of |-> <<>>]>> \o iterencode_items(records)
         \o <<[json |-> "]", of |-> <<>>]>>

\* what the interpreter writes for an exception nobody caught
Traceback(x) == <<"Traceback (most recent call last):", x>>

\* sys.exit('Unable to write to provided file path ' + args.outpath)
UnableToWrite(path) == <<"Unable to write to provided file path ", path>>

\* an exception x leaves main(): the traceback, exit status 1
Unhandled(x) ==
    /\ pc' = "crashed"
    /\ exc' = x
    /\ stderr' = Traceback(x)
    /\ exit_code' = 1

\* line 194: args = parse_args()
ParseArgs ==
    /\ pc = "parse_args"
    /\ args' = parse_args(argv, cwd)
    /\ pc' = "collect_soup"
    /\ UNCHANGED <<url_page, argv, cwd, now, fs, fs0, page, search_results, cursor,
                   processed_results, papers, f, e, exc, stdout, stderr, exit_code,
                   fn_vars>>

\* line 142: page = collect_soup(url)
CollectSoup ==
    /\ pc = "collect_soup"
    /\ page' = url_page
    /\ pc' = "extract"
    /\ UNCHANGED <<url_page, argv, args, cwd, now, fs, fs0, search_results, cursor,
                   processed_results, papers, f, e, exc, stdout, stderr, exit_code,
                   fn_vars>>

\* line 37: requests.get(url) raises (no route, no name, a reset connection)
CollectSoupFails ==
    /\ pc = "collect_soup"
    /\ Unhandled(Exc("ConnectionError", 37, <<>>))
    /\ UNCHANGED <<url_page, argv, args, cwd, now, fs, fs0, page, search_results, cursor,
                   processed_results, papers, f, e, stdout, fn_vars>>

\* lines 143-144: search_results = extract_raw_search_results(page)
ExtractResults ==
    /\ pc = "extract"
    /\ LET r == extract_raw_search_results(page)
       IN IF r.ok
          THEN /\ search_results' = r.val
               /\ cursor' = 0
               /\ processed_results' = <<>>
               /\ pc' = "loop"
               /\ UNCHANGED <<exc, stderr, exit_code>>
          ELSE /\ Unhandled(r.err)
               /\ UNCHANGED <<search_results, cursor, processed_results>>
    /\ UNCHANGED <<url_page, argv, args, cwd, now, fs, fs0, page, papers, f, e, stdout,
                   fn_vars>>

\* one turn of the loop, a node that fails being skipped
ScrapeLoopSkip ==
    /\ pc = "loop"
    /\ cursor < Len(search_results)
    /\ LET r == convert_raw_paper_to_dict(search_results[cursor + 1])
       IN /\ processed_results' = IF r.ok THEN Append(processed_results, r.val)
                                           ELSE processed_results
          /\ cursor' = cursor + 1
    /\ UNCHANGED <<pc, exc, stderr, exit_code, url_page, argv, args, cwd, now, fs, fs0,
                   page, search_results, papers, f, e, stdout, fn_vars>>

\* lines 145-146: one turn of the loop
ScrapeLoop ==
    /\ pc = "loop"
    /\ cursor < Len(search_results)
    /\ LET r == convert_raw_paper_to_dict(search_results[cursor + 1])
       IN IF r.ok
          THEN /\ processed_results' = Append(processed_results, r.val)
               /\ cursor' = cursor + 1
               /\ UNCHANGED <<pc, exc, stderr, exit_code>>
          ELSE /\ Unhandled(r.err)
               /\ UNCHANGED <<processed_results, cursor>>
    /\ UNCHANGED <<url_page, argv, args, cwd, now, fs, fs0, page, search_results, papers,
                   f, e, stdout, fn_vars>>

\* line 147 and line 195: return processed_results; papers = scrape(...)
ScrapeReturn ==
    /\ pc = "loop"
    /\ cursor = Len(search_results)
    /\ papers' = <<processed_results>>
    /\ pc' = "outpath"
    /\ UNCHANGED <<url_page, argv, args, cwd, now, fs, fs0, page, search_results, cursor,
                   processed_results, f, e, exc, stdout, stderr, exit_code, fn_vars>>

\* lines 196-197: add a default filename if necessary
DeriveOutpath ==
    /\ pc = "outpath"
    /\ args' = [args EXCEPT !.outpath = main_outpath(args.outpath, now)]
    /\ pc' = "open"
    /\ UNCHANGED <<url_page, argv, cwd, now, fs, fs0, page, search_results, cursor,
                   processed_results, papers, f, e, exc, stdout, stderr, exit_code,
                   fn_vars>>

\* line 199: open(args.outpath, 'w+'), which truncates or creates the file,
\* or raises
OpenFile ==
    /\ pc = "open"
    /\ LET r == open_w(fs, args.outpath)
       IN IF r.ok
          THEN /\ fs' = r.val
               /\ f' = iterencode(papers[1])
               /\ pc' = "dump"
               /\ UNCHANGED e
          ELSE /\ e' = r.err
               /\ pc' = "except"
               /\ UNCHANGED <<fs, f>>
    /\ UNCHANGED <<url_page, argv, args, cwd, now, fs0, page, search_results, cursor,
                   processed_results, papers, exc, stdout, stderr, exit_code, fn_vars>>

\* line 200: json.dump writes its next chunk
DumpChunk ==
    /\ pc = "dump"
    /\ f # <<>>
    /\ fs' = [fs EXCEPT ![args.outpath].content = Append(@, Head(f))]
    /\ f' = Tail(f)
    /\ UNCHANGED <<pc, url_page, argv, args, cwd, now, fs0, page, search_results, cursor,
                   processed_results, papers, e, exc, stdout, stderr, exit_code, fn_vars>>

\* line 200: the write of the next chunk raises (the disk is full, the device
\* fails); the with statement closes the file and the exception goes on
DumpFails ==
    /\ pc = "dump"
    /\ f # <<>>
    /\ e' = Exc("OSError", 200, args.outpath)
    /\ f' = <<>>
    /\ pc' = "except"
    /\ UNCHANGED <<url_page, argv, args, cwd, now, fs, fs0, page, search_results, cursor,
                   processed_results, papers, exc, stdout, stderr, exit_code, fn_vars>>

\* the end of the with statement: everything is written, the file is closed
CloseFile ==
    /\ pc = "dump"
    /\ f = <<>>
    /\ pc' = "echo"
    /\ UNCHANGED <<url_page, argv, args, cwd, now, fs, fs0, page, search_results, cursor,
                   processed_results, papers, f, e, exc, stdout, stderr, exit_code, fn_vars>>

\* except IOError: the error printed, and the run going on
ExceptIOErrorPass ==
    /\ pc = "except"
    /\ IsIOError(e)
    /\ stdout' = Append(stdout, [printed |-> "e", of |-> <<e>>])
    /\ pc' = "echo"
    /\ UNCHANGED <<url_page, argv, args, cwd, now, fs, fs0, page, search_results, cursor,
                   processed_results, papers, f, e, exc, stderr, exit_code, fn_vars>>

\* lines 201-203: except IOError as e: print(e); sys.exit(message)
ExceptIOError ==
    /\ pc = "except"
    /\ IsIOError(e)
    /\ stdout' = Append(stdout, [printed |-> "e", of |-> <<e>>])
    /\ stderr' = UnableToWrite(args.outpath)
    /\ exit_code' = 1
    /\ pc' = "exited"
    /\ UNCHANGED <<url_page, argv, args, cwd, now, fs, fs0, page, search_results, cursor,
                   processed_results, papers, f, e, exc, fn_vars>>

\* lines 204-205: print the json unless silenced; main returns
Echo ==
    /\ pc = "echo"
    /\ stdout' = IF ~args.silent
                 THEN Append(stdout, [printed |-> "json", of |-> iterencode(papers[1])])
                 ELSE stdout
    /\ pc' = "done"
    /\ UNCHANGED <<url_page, argv, args, cwd, now, fs, fs0, page, search_results, cursor,
                   processed_results, papers, f, e, exc, stderr, exit_code, fn_vars>>

Next ==
    \/ ParseArgs
    \/ CollectSoup
    \/ CollectSoupFails
    \/ ExtractResults
    \/ ScrapeLoop
    \/ ScrapeReturn
    \/ DeriveOutpath
    \/ OpenFile
    \/ DumpChunk
    \/ DumpFails
    \/ CloseFile
    \/ ExceptIOError
    \/ Echo

----------------------------------------------------------------------------
(* The pages, command lines and filesystems the program is run on. *)

\* a well-formed listing node, the n-th paper of the site
GoodItem(n) ==
    [h3 |-> <<[text |-> <<"P", Digits[n + 1]>>,
               a |-> <<[href |-> << <<"/", "p", Digits[n + 1]>> >>]>>]>>,
     author |-> <<[span |-> << <<"A", ",", " ", "B">> >>]>>,
     pubdate |-> <<[span |-> << <<"5", " ", "M", "a", "y", " ", "2", "0", "2", "1">> >>]>>,
     abstract |-> <<[text |-> <<" ", "X", " ">>]>>,
     topics |-> <<[span |-> << <<"E">> >>]>>]

\* listing nodes that lack one element, or whose date does not parse
BadItems ==
    { [GoodItem(1) EXCEPT !.h3 = <<>>],
      [GoodItem(1) EXCEPT !.h3[1].a = <<>>],
      [GoodItem(1) EXCEPT !.h3[1].a[1].href = <<>>],
      [GoodItem(1) EXCEPT !.author = <<>>],
      [GoodItem(1) EXCEPT !.author[1].span = <<>>],
      [GoodItem(1) EXCEPT !.pubdate = <<>>],
      [GoodItem(1) EXCEPT !.pubdate[1].span = <<>>],
      [GoodItem(1) EXCEPT !.pubdate[1].span =
           << <<"2", "0", "2", "0", "-", "0", "1", "-", "0", "1">> >>],
      [GoodItem(1) EXCEPT !.abstract = <<>>],
      [GoodItem(1) EXCEPT !.topics = <<>>],
      [GoodItem(1) EXCEPT !.topics[1].span = <<>>] }

Items == {GoodItem(1), GoodItem(2)} \cup BadItems

\* the listing nodes found outside the results container: a well-formed one,
\* and one without its heading
OtherItems == {GoodItem(2), [GoodItem(1) EXCEPT !.h3 = <<>>]}

\* the sequences of up to n elements of S
RECURSIVE SeqsUpTo(_, _)
SeqsUpTo(S, n) ==
    IF n = 0 THEN {<<>>}
    ELSE LET shorter == SeqsUpTo(S, n - 1)
         IN shorter \cup {Append(s, i) : s \in {x \in shorter : Len(x) = n - 1}, i \in S}

\* the parsed pages: at most one element of class search-results with its li
\* elements, and the li elements elsewhere on the page, MaxItems li in all
Pages ==
    {[results |-> <<>>, elsewhere |-> o] : o \in SeqsUpTo(OtherItems, MaxItems)}
    \cup {[results |-> <<[li |-> q[1]]>>, elsewhere |-> q[2]] :
            q \in {x \in SeqsUpTo(Items, MaxItems) \X SeqsUpTo(OtherItems, MaxItems) :
                      Len(x[1]) + Len(x[2]) <= MaxItems}}

WorkDir == <<"/", "w">>

ReadOnlyDir == <<"/", "r">>

OldFile == <<"/", "w", "/", "o", DotJson[1], DotJson[2], DotJson[3], DotJson[4], DotJson[5]>>

\* what the output file held before the run
OldContent == <<[json |-> "old", of |-> <<>>]>>

\* a working directory with an earlier output file in it, and a directory
\* the process may not write to
Disk ==
    (WorkDir :> Dir(TRUE)) @@ (ReadOnlyDir :> Dir(FALSE))
    @@ (OldFile :> File(TRUE, OldContent))

Clock == [Y |-> 2021, m |-> 5, d |-> 5, H |-> 9, M |-> 30, S |-> 0]

\* --outpath: not given, the earlier file by its relative name, the directory
\* that is not writable
Outpaths == { <<>>, << SubSeq(OldFile, 4, Len(OldFile)) >>, <<ReadOnlyDir>> }

InitFn ==
    /\ fn_pc = "idle"
    /\ fn_in = <<>>
    /\ fn_out = <<>>

InitMain ==
    /\ pc = "parse_args"
    /\ args = <<>>
    /\ fs0 = fs
    /\ page = <<>>
    /\ search_results = <<>>
    /\ cursor = 0
    /\ processed_results = <<>>
    /\ papers = <<>>
    /\ f = <<>>
    /\ e = NoErr
    /\ exc = NoErr
    /\ stdout = <<>>
    /\ stderr = <<>>
    /\ exit_code = 0

Init ==
    /\ url_page \in Pages
    /\ argv \in [outpath : Outpaths, silent : BOOLEAN]
    /\ cwd = WorkDir
    /\ now = Clock
    /\ fs = Disk
    /\ InitMain
    /\ InitFn

Spec == Init /\ [][Next]_vars

----------------------------------------------------------------------------
(* The comma-list extractors applied on their own. *)

Alphabet == {"A", "B", ",", " "}

RECURSIVE TextsUpTo(_)
TextsUpTo(n) ==
    IF n = 0 THEN {<<>>}
    ELSE LET shorter == TextsUpTo(n - 1)
         IN shorter \cup {Append(t, c) : t \in {x \in shorter : Len(x) = n - 1},
                                          c \in Alphabet}

\* the examples of the comma-list rule, with the two-letter names shortened
ListExamples ==
    { <<"A", ",", ",", " ", "B">>,
      <<"A", "B", " ", "A", "B", ",", " ", "B", " ", "A">>,
      <<"A", " ", "B">> }

ListTexts == TextsUpTo(MaxLen) \cup ListExamples

\* a listing node whose author and topics spans both hold the text
ListItem(text) ==
    [author |-> <<[span |-> <<text>>]>>, topics |-> <<[span |-> <<text>>]>>]

IdleMain ==
    /\ pc = "idle"
    /\ url_page = <<>>
    /\ argv = <<>>
    /\ args = <<>>
    /\ cwd = <<>>
    /\ now = <<>>
    /\ fs = <<>>
    /\ fs0 = <<>>
    /\ page = <<>>
    /\ search_results = <<>>
    /\ cursor = 0
    /\ processed_results = <<>>
    /\ papers = <<>>
    /\ f = <<>>
    /\ e = NoErr
    /\ exc = NoErr
    /\ stdout = <<>>
    /\ stderr = <<>>
    /\ exit_code = 0

InitList ==
    /\ IdleMain
    /\ fn_pc = "call"
    /\ fn_in \in ListTexts
    /\ fn_out = <<>>

CallAuthors ==
    /\ fn_pc = "call"
    /\ fn_pc' = "authors"
    /\ fn_out' = get_author_list(ListItem(fn_in))
    /\ UNCHANGED <<fn_in, main_vars>>

CallTopics ==
    /\ fn_pc = "call"
    /\ fn_pc' = "topics"
    /\ fn_out' = get_topics_list(ListItem(fn_in))
    /\ UNCHANGED <<fn_in, main_vars>>

NextList == CallAuthors \/ CallTopics

SpecList == InitList /\ [][NextList]_vars

----------------------------------------------------------------------------
(* Properties of the comma-list extractors (under SpecList). *)

CommaPositions(text) == {i \in 1..Len(text) : text[i] = ","}

\* the position of the k-th comma of text
CommaAt(text, k) ==
    CHOOSE p \in CommaPositions(text) :
        Cardinality({j \in CommaPositions(text) : j < p}) = k - 1

\* the k-th of the pieces the commas of text cut it into
Piece(text, k) ==
    LET n == Cardinality(CommaPositions(text))
        first == IF k = 1 THEN 1 ELSE CommaAt(text, k - 1) + 1
        last == IF k = n + 1 THEN Len(text) ELSE CommaAt(text, k) - 1
    IN SubSeq(text, first, last)

\* a piece without the whitespace around it: from its first to its last
\* character that is not whitespace
Trimmed(p) ==
    LET solid == {i \in 1..Len(p) : p[i] \notin Whitespace}
    IN IF solid = {} THEN <<>>
       ELSE SubSeq(p, CHOOSE i \in solid : \A j \in solid : i <= j,
                      CHOOSE i \in solid : \A j \in solid : i >= j)

ListRan == fn_pc \in {"authors", "topics"}

\* C9: an extractor run on a text with n commas returns n+1 entries, the
\* k-th being the k-th piece between commas with the whitespace around it
\* removed, empty pieces kept as empty strings; "A,, B" gives "A", "", "B",
\* a text without a comma gives itself as the one entry; and the authors
\* extractor and the topics extractor return the same list for the same text.
C9_SplitThenTrim ==
    ListRan =>
        /\ fn_out.ok
        /\ Len(fn_out.val) = Cardinality(CommaPositions(fn_in)) + 1
        /\ \A k \in 1..Len(fn_out.val) : fn_out.val[k] = Trimmed(Piece(fn_in, k))
        /\ (fn_in = <<"A", ",", ",", " ", "B">>
                => fn_out.val = << <<"A">>, <<>>, <<"B">> >>)
        /\ (fn_in = <<"A", " ", "B">> => fn_out.val = << <<"A", " ", "B">> >>)
        /\ get_author_list(ListItem(fn_in)).val = get_topics_list(ListItem(fn_in)).val
        /\ fn_out.val = (IF fn_pc = "authors"
                         THEN get_topics_list(ListItem(fn_in)).val
                         ELSE get_author_list(ListItem(fn_in)).val)

\* C9's case: the topics extractor has run on a text with two commas, an empty
\* piece between them and whitespace to trim
C9_Witness ==
    /\ fn_pc = "topics"
    /\ fn_in = <<"A", ",", ",", " ", "B">>
    /\ fn_out.ok
    /\ Len(fn_out.val) = 3
    /\ fn_out.val[2] = <<>>

----------------------------------------------------------------------------
(* The date extractor applied on its own. *)

\* the longest run of whitespace between the day, the month and the year
MaxGap == 2

RECURSIVE GapsUpTo(_)
GapsUpTo(n) ==
    IF n = 0 THEN {<<>>}
    ELSE LET shorter == GapsUpTo(n - 1)
         IN shorter \cup {Append(g, c) : g \in {x \in shorter : Len(x) = n - 1},
                                          c \in Whitespace}

DateDays ==
    { <<"1">>, <<"0", "1">>, <<"2", "9">>, <<"3", "0">>, <<"3", "1">>, <<"3", "2">>,
      <<"0">>, <<"0", "0", "1">> }

DateMonths ==
    { <<"J", "a", "n", "u", "a", "r", "y">>,
      <<"j", "a", "n", "u", "a", "r", "y">>,
      <<"F", "e", "b", "r", "u", "a", "r", "y">>,
      <<"F", "E", "B", "R", "U", "A", "R", "Y">>,
      <<"A", "p", "r", "i", "l">>,
      <<"J", "a", "n">> }

DateYears ==
    { <<"2", "0", "2", "0">>, <<"2", "0", "0", "0">>, <<"1", "9", "0", "0">>,
      <<"0", "0", "0", "0">>, <<"2", "0", "2">>, <<"2", "0", "2", "0", "1">> }

\* the whitespace around the text in its span: none, or some on both sides
DatePads == { <<<<>>, <<>>>>, <<<<"\n", " ">>, <<" ">>>> }

\* the examples of the date rule and of a wrong format
DateExamples ==
    { <<"1", " ", "J", "a", "n", "u", "a", "r", "y", " ", "2", "0", "2", "0">>,
      <<"3", "1", " ", "D", "e", "c", "e", "m", "b", "e", "r", " ", "1", "9", "9", "9">>,
      <<"5", " ", "M", "a", "y", " ", "2", "0", "2", "1">>,
      <<"2", "0", "2", "0", "-", "0", "1", "-", "0", "1">>,
      <<>> }

DateTexts ==
    {p[1] \o d \o g1 \o m \o g2 \o y \o p[2] :
        p \in DatePads, d \in DateDays, g1 \in GapsUpTo(MaxGap), m \in DateMonths,
        g2 \in GapsUpTo(MaxGap), y \in DateYears}
    \cup DateExamples

\* a listing node whose publication-date span holds the text
DateItem(text) == [pubdate |-> <<[span |-> <<text>>]>>]

InitDate ==
    /\ IdleMain
    /\ fn_pc = "call"
    /\ fn_in \in DateTexts
    /\ fn_out = <<>>

CallDate ==
    /\ fn_pc = "call"
    /\ fn_pc' = "date"
    /\ fn_out' = get_date(DateItem(fn_in))
    /\ UNCHANGED <<fn_in, main_vars>>

NextDate == CallDate

SpecDate == InitDate /\ [][NextDate]_vars

----------------------------------------------------------------------------
(* Properties of the date extractor (under SpecDate). *)

\* the number a text of up to four digits writes
NumberOf(s) ==
    LET place(i) == IF i <= Len(s)
                    THEN DigitVal(s[Len(s) - i + 1]) * <<1, 10, 100, 1000>>[i]
                    ELSE 0
    IN place(1) + place(2) + place(3) + place(4)

AllDigits(s) == \A i \in 1..Len(s) : IsDigit(s[i])

AllSpace(s) == s # <<>> /\ \A i \in 1..Len(s) : s[i] \in Whitespace

\* a day of the month written with one or two digits, padded or not
DayToken(s) == Len(s) \in 1..2 /\ AllDigits(s) /\ NumberOf(s) \in 1..31

\* the English name of month m, capitalised
MonthName(m) ==
    [f_month[m] EXCEPT ![1] = UpperCase[CHOOSE k \in 1..26 : LowerCase[k] = f_month[m][1]]]

\* the ways to read t as a day, whitespace, a month name in any letter case,
\* whitespace and a four-digit year: the day ends at i, the month starts at j
LenientReadings(t) ==
    {[d |-> NumberOf(SubSeq(t, 1, x[1])), m |-> x[3],
      y |-> NumberOf(SubSeq(t, Len(t) - 3, Len(t)))] :
        x \in {z \in (1..2) \X (1..Len(t)) \X (1..12) :
                 LET i == z[1]
                     j == z[2]
                     k == z[2] + Len(f_month[z[3]])
                 IN /\ k <= Len(t) - 4
                    /\ DayToken(SubSeq(t, 1, i))
                    /\ AllSpace(SubSeq(t, i + 1, j - 1))
                    /\ lower(SubSeq(t, j, k - 1)) = f_month[z[3]]
                    /\ AllSpace(SubSeq(t, k, Len(t) - 4))
                    /\ AllDigits(SubSeq(t, Len(t) - 3, Len(t)))}}

\* the ways to read t as "D Month YYYY": single spaces, the month capitalised
StrictReadings(t) ==
    {[d |-> NumberOf(SubSeq(t, 1, x[1])), m |-> x[2],
      y |-> NumberOf(SubSeq(t, Len(t) - 3, Len(t)))] :
        x \in {z \in (1..2) \X (1..12) :
                 /\ Len(t) >= z[1] + 4
                 /\ DayToken(SubSeq(t, 1, z[1]))
                 /\ SubSeq(t, z[1] + 1, Len(t) - 4)
                        = <<" ">> \o MonthName(z[2]) \o <<" ">>
                 /\ AllDigits(SubSeq(t, Len(t) - 3, Len(t)))}}

\* a day of the calendar datetime.date knows: years 1 to 9999
RealDate(r) ==
    /\ r.y >= 1
    /\ r.d <= (IF r.m = 2
               THEN (IF r.y % 4 = 0 /\ (r.y % 100 # 0 \/ r.y % 400 = 0) THEN 29 ELSE 28)
               ELSE IF r.m \in {4, 6, 9, 11} THEN 30 ELSE 31)

\* v is YYYY-MM-DD for the reading r
IsIso(v, r) ==
    /\ Len(v) = 10
    /\ v[5] = "-" /\ v[8] = "-"
    /\ AllDigits(SubSeq(v, 1, 4)) /\ AllDigits(SubSeq(v, 6, 7)) /\ AllDigits(SubSeq(v, 9, 10))
    /\ NumberOf(SubSeq(v, 1, 4)) = r.y
    /\ NumberOf(SubSeq(v, 6, 7)) = r.m
    /\ NumberOf(SubSeq(v, 9, 10)) = r.d

\* C10 as amended: a trimmed text made of a day (one or two digits), one or
\* more whitespace characters, the full English month name in any letter
\* case, one or more whitespace characters and a four-digit year, naming a
\* real date of the years 1 to 9999, gives YYYY-MM-DD for that day, month and
\* year, zero-padded; every other text fails with a ValueError and gives no date.
C10_DateLenient ==
    fn_pc = "date" =>
        LET real == {r \in LenientReadings(Trimmed(fn_in)) : RealDate(r)}
        IN IF real # {}
           THEN fn_out.ok /\ \A r \in real : IsIso(fn_out.val, r)
           ELSE ~fn_out.ok /\ fn_out.err.type = "ValueError" /\ fn_out.val = <<>>

\* C10 as stated: only a text of the form "D Month YYYY" that names a real
\* date gives a date (YYYY-MM-DD for that day); every other text fails.
C10_DateStrict ==
    fn_pc = "date" =>
        LET real == {r \in StrictReadings(Trimmed(fn_in)) : RealDate(r)}
        IN IF real # {}
           THEN fn_out.ok /\ \A r \in real : IsIso(fn_out.val, r)
           ELSE ~fn_out.ok

\* C10's case: the extractor has returned a date for a text that had to be
\* trimmed and is not of the strict form (longer gaps and another letter case)
C10_Witness ==
    /\ fn_pc = "date"
    /\ fn_out.ok
    /\ fn_in # Trimmed(fn_in)
    /\ StrictReadings(Trimmed(fn_in)) = {}
    /\ fn_out.val = <<"2", "0", "0", "0", "-", "0", "2", "-", "2", "9">>

----------------------------------------------------------------------------
(* The program run on a few pages, with the command lines and filesystems  *)
(* that tell the ways of deriving the output path apart.                    *)

JsonDir == WorkDir \o <<"/", "d">> \o DotJson

PlainDir == WorkDir \o <<"/", "d">>

TextFile == WorkDir \o <<"/", "o", ".", "t", "x", "t">>

\* the working directory with a file and a directory whose names end in
\* .json, and a file and a directory whose names do not
PathDisk ==
    (WorkDir :> Dir(TRUE)) @@ (ReadOnlyDir :> Dir(FALSE))
    @@ (OldFile :> File(TRUE, OldContent)) @@ (TextFile :> File(TRUE, OldContent))
    @@ (JsonDir :> Dir(TRUE)) @@ (PlainDir :> Dir(TRUE))

PathOutpaths ==
    { <<>>,
      << <<"o">> \o DotJson >>,
      << <<"o", ".", "t", "x", "t">> >>,
      << <<"d">> \o DotJson >>,
      << <<".", "/", "d">> \o DotJson \o <<"/">> >>,
      << <<"d">> >>,
      << <<"d", "/">> >>,
      << <<"n">> \o DotJson >>,
      << <<"n">> >>,
      << <<".", ".", "/", "w", "/", "/", "o", ".", "t", "x", "t">> >>,
      << TextFile >>,
      << ReadOnlyDir >>,
      << <<"/">> >> }

PathClocks ==
    { Clock, [Y |-> 2024, m |-> 12, d |-> 31, H |-> 23, M |-> 59, S |-> 59] }

PathPages ==
    { [results |-> <<>>, elsewhere |-> <<GoodItem(1)>>],
      [results |-> <<[li |-> <<>>]>>, elsewhere |-> <<>>],
      [results |-> <<[li |-> <<GoodItem(1)>>]>>, elsewhere |-> <<>>],
      [results |-> <<[li |-> <<GoodItem(1), [GoodItem(2) EXCEPT !.h3 = <<>>]>>]>>,
       elsewhere |-> <<>>] }

InitPath ==
    /\ url_page \in PathPages
    /\ argv \in [outpath : PathOutpaths, silent : BOOLEAN]
    /\ cwd \in {WorkDir, PlainDir}
    /\ now \in PathClocks
    /\ fs = PathDisk
    /\ InitMain
    /\ InitFn

SpecPath == InitPath /\ [][Next]_vars

----------------------------------------------------------------------------
(* Properties of the output path (under SpecPath). *)

\* the path the user supplied (or the default), made absolute
GivenPath == abspath(IF argv.outpath = <<>> THEN <<".", "/">> ELSE argv.outpath[1], cwd)

\* main has derived the path it opens
PathDerived == pc \in {"open", "dump", "except", "exited", "echo", "done"}

\* the directory with the auto-generated timestamped filename in it
TimestampedIn(dir) ==
    (IF dir[Len(dir)] = "/" THEN dir ELSE dir \o <<"/">>) \o strftime(now) \o DotJson

\* C6: the file is written at the supplied directory joined with a timestamped
\* .json filename if the supplied path is a directory, and at the supplied
\* path itself if it is a file path (an existing file, or a .json path that
\* does not exist yet), whatever the path ends in.
C6_TargetByKind ==
    PathDerived =>
        /\ (GivenPath \in DOMAIN fs0 /\ fs0[GivenPath].kind = "dir"
                => args.outpath = TimestampedIn(GivenPath))
        /\ (GivenPath \in DOMAIN fs0 /\ fs0[GivenPath].kind = "file"
                => args.outpath = GivenPath)
        /\ (GivenPath \notin DOMAIN fs0 /\ endswith(GivenPath, DotJson)
                => args.outpath = GivenPath)

----------------------------------------------------------------------------
(* Properties of a run (under Spec). *)

\* the page has been fetched and parsed
Parsed == pc \notin {"parse_args", "collect_soup"} /\ ~(pc = "crashed" /\ exc.line = 37)

HasContainer == url_page.results # <<>>

\* the li elements of the results container, in document order
ListingNodes == IF HasContainer THEN url_page.results[1].li ELSE <<>>

\* a listing node with every element the record needs, and a date that parses
WellFormed(item) ==
    /\ item.h3 # <<>> /\ item.h3[1].a # <<>> /\ item.h3[1].a[1].href # <<>>
    /\ item.author # <<>> /\ item.author[1].span # <<>>
    /\ item.pubdate # <<>> /\ item.pubdate[1].span # <<>>
    /\ LenientReadings(Trimmed(item.pubdate[1].span[1])) # {}
    /\ \A r \in LenientReadings(Trimmed(item.pubdate[1].span[1])) : RealDate(r)
    /\ item.abstract # <<>>
    /\ item.topics # <<>> /\ item.topics[1].span # <<>>

\* the positions of the listing nodes whose conversion fails
BadNodes == {i \in 1..Len(ListingNodes) : ~convert_raw_paper_to_dict(ListingNodes[i]).ok}

FirstBad == CHOOSE i \in BadNodes : \A j \in BadNodes : i <= j

\* scrape has returned to main
Returned == pc \in {"outpath", "open", "dump", "except", "exited", "echo", "done"}

\* C1: for a parsed page with the results container and only well-formed
\* listing nodes, scrape returns one record per li of the container, the i-th
\* being the record built from the i-th li in document order.
C1_OneRecordPerNodeInOrder ==
    (Parsed /\ HasContainer /\ \A i \in 1..Len(ListingNodes) : WellFormed(ListingNodes[i]))
    =>  /\ pc # "crashed"
        /\ (pc = "loop" =>
               /\ search_results = ListingNodes
               /\ processed_results =
                      [i \in 1..cursor |-> convert_raw_paper_to_dict(ListingNodes[i]).val])
        /\ (Returned =>
               /\ Len(papers[1]) = Len(ListingNodes)
               /\ \A i \in 1..Len(ListingNodes) :
                      /\ convert_raw_paper_to_dict(ListingNodes[i]).ok
                      /\ papers[1][i] = convert_raw_paper_to_dict(ListingNodes[i]).val)

\* C1's case: a run has ended with the records of two different well-formed
\* nodes, the second paper of the site listed before the first
C1_Witness ==
    /\ pc = "done"
    /\ ListingNodes = <<GoodItem(2), GoodItem(1)>>
    /\ Len(papers[1]) = 2
    /\ papers[1][1].title = <<"P", "2">>
    /\ papers[1][2].title = <<"P", "1">>

\* C2: when the conversion of a listing node fails, at whatever position, the
\* run ends with that node's error unhandled and without output: scrape
\* returns nothing to main, no file is opened or written and nothing is printed.
C2_FailedNodeAbortsRun ==
    (Parsed /\ HasContainer /\ BadNodes # {})
    =>  /\ pc \in {"extract", "loop", "crashed"}
        /\ papers = <<>>
        /\ fs = fs0
        /\ f = <<>>
        /\ stdout = <<>>
        /\ (pc = "loop" => cursor < FirstBad)
        /\ (pc = "crashed" =>
               /\ exc = convert_raw_paper_to_dict(ListingNodes[FirstBad]).err
               /\ stderr = Traceback(exc)
               /\ exit_code = 1)

\* C2's case: the second node failed after the first was converted
C2_Witness ==
    /\ pc = "crashed"
    /\ HasContainer
    /\ BadNodes # {}
    /\ FirstBad = 2
    /\ Len(processed_results) = 1
    /\ exc.type = "ValueError"

\* the file written at the destination, with everything json.dump writes
Complete ==
    /\ args.outpath \in DOMAIN fs
    /\ fs[args.outpath].kind = "file"
    /\ fs[args.outpath].content = iterencode(papers[1])

\* the destination is as it was before the run
Untouched ==
    IF args.outpath \in DOMAIN fs0
    THEN args.outpath \in DOMAIN fs /\ fs[args.outpath] = fs0[args.outpath]
    ELSE args.outpath \notin DOMAIN fs

\* C3: after a run whose write failed, the destination holds the complete
\* serialized records or is exactly as it was before the run.
C3_WriteAllOrNothing == pc = "exited" => (Complete \/ Untouched)

\* C4: for a page without an element of class search-results, scrape ends in
\* an error; it returns nothing, not even the empty list.
C4_NoContainerIsAnError ==
    (Parsed /\ ~HasContainer)
    =>  /\ pc \in {"extract", "crashed"}
        /\ papers = <<>>
        /\ fs = fs0
        /\ stdout = <<>>
        /\ (pc = "crashed" =>
               /\ exc = Exc("AttributeError", 51, <<>>)
               /\ stderr = Traceback(exc)
               /\ exit_code # 0)

\* C4's case: the run crashed on a page with li elements but no container
C4_Witness ==
    /\ pc = "crashed"
    /\ ~HasContainer
    /\ url_page.elsewhere # <<>>
    /\ exc.type = "AttributeError"

\* C5: for a page whose results container holds no li, scrape returns the
\* empty list without an error, and the run goes on to write the empty array.
C5_EmptyContainerIsEmptyResult ==
    (Parsed /\ HasContainer /\ ListingNodes = <<>>)
    =>  /\ pc # "crashed"
        /\ exc = NoErr
        /\ (pc = "loop" => search_results = <<>> /\ cursor = 0)
        /\ (Returned => papers = << <<>> >>)
        /\ (pc = "dump" =>
               fs[args.outpath].content \o f = <<[json |-> "[]", of |-> <<>>]>>)
        /\ (pc \in {"echo", "done"} =>
               fs[args.outpath].content = <<[json |-> "[]", of |-> <<>>]>>)

\* C5's case: a run on a page with an empty container, and li elements
\* elsewhere, has ended with the empty array in the file
C5_Witness ==
    /\ pc = "done"
    /\ HasContainer
    /\ ListingNodes = <<>>
    /\ url_page.elsewhere # <<>>
    /\ papers = << <<>> >>
    /\ fs[args.outpath].content = <<[json |-> "[]", of |-> <<>>]>>

\* the lines at which a lookup of a marker element or of its span fails, and
\* the field each belongs to
FieldOfLine ==
    (64 :> "authors") @@ (65 :> "authors") @@ (79 :> "topics") @@ (80 :> "topics")
    @@ (94 :> "abstract") @@ (107 :> "date") @@ (108 :> "date")
    @@ (123 :> "title") @@ (124 :> "url")

\* the listing nodes of page p, and the first of them whose conversion fails
NodesOf(p) == IF p.results # <<>> THEN p.results[1].li ELSE <<>>

BadNodesOf(p) == {i \in 1..Len(NodesOf(p)) : ~convert_raw_paper_to_dict(NodesOf(p)[i]).ok}

FirstBadOf(p) == CHOOSE i \in BadNodesOf(p) : \A j \in BadNodesOf(p) : i <= j

\* C7: when a field cannot be extracted because its marker element or span is
\* absent, the error tells which field failed and at which position of the
\* candidate sequence: no run on another page ends with the same error for
\* another field or another position.
C7_ErrorNamesFieldAndNode ==
    (pc = "crashed" /\ exc.line \in DOMAIN FieldOfLine)
    => \A p \in Pages :
          (/\ BadNodesOf(p) # {}
           /\ convert_raw_paper_to_dict(NodesOf(p)[FirstBadOf(p)]).err = exc)
          => /\ FieldOfLine[exc.line] \in
                    {"authors", "topics", "abstract", "date", "title", "url"}
             /\ FirstBadOf(p) = cursor + 1

\* C8: a run whose write failed ends with a non-zero exit status and the
\* message that the path could not be written; that outcome differs from the
\* traceback of an extraction failure; and a run never ends as a success
\* after a write failure.
C8_WriteFailureIsFatal ==
    /\ (e # NoErr => pc \in {"except", "exited"})
    /\ (pc = "exited" =>
           /\ e # NoErr
           /\ exit_code # 0
           /\ stderr = UnableToWrite(args.outpath)
           /\ stdout = <<[printed |-> "e", of |-> <<e>>]>>
           /\ stderr[1] # Traceback(exc)[1])
    /\ (pc = "crashed" =>
           /\ e = NoErr
           /\ exit_code # 0
           /\ stderr = Traceback(exc)
           /\ stderr[1] # UnableToWrite(args.outpath)[1])
    /\ (pc = "done" => e = NoErr /\ exit_code = 0 /\ Complete)

\* C8's case: the write failed after the file was opened and a chunk written,
\* and the process has exited
C8_Witness ==
    /\ pc = "exited"
    /\ e.type = "OSError"
    /\ fs[args.outpath].content # <<>>
    /\ exit_code = 1

====
